---- MODULE Spec2Model ----
(***************************************************************************)
(* Model of the EBA disclosure pipeline scripts:                           *)
(*   step0_build_taxonomy_mapping.py build_mapping                         *)
(*   step1b_fixed_parser.py       parse_bank, main                         *)
(*   step2b_taxonomy_quantscore.py main                                    *)
(*   step2c_currency_fix.py       get_fx_rate, main                        *)
(*   step3_das_scoring.py         score_bank, compute_dci, main            *)
(* One behaviour is one run of one script, or of the ratio script followed *)
(* by the currency script.  Spec runs the parser over one filing folder or *)
(* the ratio and currency scripts over one row of the raw Template 1       *)
(* table; SpecStep0, SpecStep1b, SpecStep2 and SpecStep3 run the mapping   *)
(* build, the parser over several folders, the ratio and currency scripts  *)
(* over several entities, and the scoring script.                          *)
(*                                                                         *)
(* Numbers are exact rationals <<numerator, denominator>> in lowest terms  *)
(* with a positive denominator; <<0, 0>> is NaN (an absent value) and      *)
(* <<1, 0>>, <<-1, 0>> are the infinities numpy yields on division by 0.   *)
(***************************************************************************)
EXTENDS Integers, Sequences, FiniteSets, TLC

VARIABLES job, filing, t1, banks, master_fixed, qs_csv, final_csv, div_log,
          api_key, banks_fixed, quantscore, loaded, banks_with_text, das_results,
          waited, gaps, das_csv, dci_csv, taxonomy, dp_mapping

\* the state of the parser, of the ratio script and of the currency script
vars_quant == <<filing, t1, banks, master_fixed, qs_csv, final_csv, div_log>>

\* the state of the scoring script
vars_das == <<api_key, banks_fixed, quantscore, loaded, banks_with_text, das_results,
              waited, gaps, das_csv, dci_csv>>

\* the state of the mapping script
vars_map == <<taxonomy, dp_mapping>>

vars == <<job, vars_quant, vars_das, vars_map>>

----------------------------------------------------------------------------
(* Bounds of the model *)

\* raw grand totals range over -1..MaxRaw raw units
MaxRaw == 2
\* at most MaxPresent fossil datapoints carry a value in one filing
MaxPresent == 2
\* rescaling factors 2..MaxFactor and 1/MaxFactor
MaxFactor == 2

----------------------------------------------------------------------------
(* Floating point values as exact rationals *)

NaN == <<0, 0>>

notna(v) == v # NaN

Abs(x) == IF x < 0 THEN -x ELSE x

Sign(x) == IF x < 0 THEN -1 ELSE IF x = 0 THEN 0 ELSE 1

RECURSIVE GCD(_, _)
GCD(a, b) == IF b = 0 THEN a ELSE GCD(b, a % b)

Norm(n, d) ==
    IF d = 0 THEN <<Sign(n), 0>>
    ELSE LET g == GCD(Abs(n), Abs(d))
             s == IF d < 0 THEN -1 ELSE 1
         IN  <<s * (n \div g), s * (d \div g)>>

fmul(a, b) ==
    IF a = NaN \/ b = NaN THEN NaN
    ELSE IF a[2] = 0 \/ b[2] = 0 THEN <<Sign(a[1]) * Sign(b[1]), 0>>
    ELSE LET g1 == GCD(Abs(a[1]), b[2])
             g2 == GCD(Abs(b[1]), a[2])
         IN  <<(a[1] \div g1) * (b[1] \div g2), (a[2] \div g2) * (b[2] \div g1)>>

fdiv(a, b) ==
    IF a = NaN \/ b = NaN THEN NaN
    ELSE IF b[1] = 0 THEN <<Sign(a[1]), 0>>
    ELSE IF b[2] = 0 THEN (IF a[2] = 0 THEN NaN ELSE <<0, 1>>)
    ELSE fmul(a, IF b[1] < 0 THEN <<-b[2], -b[1]>> ELSE <<b[2], b[1]>>)

fadd(a, b) ==
    IF a = NaN \/ b = NaN THEN NaN
    ELSE IF a[2] = 0 \/ b[2] = 0
         THEN (IF a[2] = 0 /\ b[2] = 0 /\ a # b THEN NaN
               ELSE IF a[2] = 0 THEN a ELSE b)
    ELSE LET g == GCD(a[2], b[2])
             l == (a[2] \div g) * b[2]
         IN  Norm(a[1] * (l \div a[2]) + b[1] * (l \div b[2]), l)

\* v > 0 as Python evaluates it: False for NaN
gt0(v) == v[1] > 0

\* a <= b for finite a, b
fle(a, b) == a[1] * b[2] <= b[1] * a[2]

----------------------------------------------------------------------------
(* Inputs *)

\* a raw factValue: k raw units of half a million
RawOf(k) == <<k * 500000, 1>>

\* a raw fossil fact: absent, negative, zero or positive
FossilRaw == {NaN, RawOf(-1), RawOf(0), RawOf(1)}

TotalRaw == {NaN} \cup {RawOf(k) : k \in -1..MaxRaw}

\* Python's None for a string or a table, and for an entity identifier
None == "None"

NoLei == <<>>

NoFile == <<>>

\* a currency string: an ISO code, possibly in lower case, with surrounding blanks
\* or with the "iso4217:" namespace prefix
Ccy(code, ns, pad, lower) == [code |-> code, ns |-> ns, pad |-> pad, lower |-> lower]

\* str(nan)
NanStr == Ccy("NAN", FALSE, FALSE, TRUE)

\* s.replace("iso4217:", ""), s.strip(), s.upper()
replace_ns(s) == [s EXCEPT !.ns = FALSE]

strip(s) == [s EXCEPT !.pad = FALSE]

upper(s) == [s EXCEPT !.lower = FALSE]

\* the plain upper-case code a table key is compared with
plain(code) == Ccy(code, FALSE, FALSE, FALSE)

\* the identifier of the entity whose record is processed: its first 15 characters
\* and the rest
ThisLei == <<"5493000LKS7B3UT", "F7H35">>

----------------------------------------------------------------------------
(* step1b_fixed_parser.py *)

\* a folder name: the length of its leading run of characters of A-Z0-9 and the
\* character after the run ("" at the end of the name)
FolderName(run, next) == [run |-> run, next |-> next]

\* the pattern without the dot after the identifier
LEI_PATTERN_match_no_dot(name) == name.run >= 20

\* LEI_PATTERN.match(name): ^([A-Z0-9]{20})\. matches when the 21st character is a
\* dot, so the leading run is exactly 20 characters long
LEI_PATTERN_match(name) == name.run = 20 /\ name.next = "."

\* the columns dict(zip(t1["datapoint"], t1["factValue"])) reads
T1Columns == {"datapoint", "factValue"}

DP_GRAND_TOTAL == "dp471828"

CPRS_DPS == [dp471326 |-> "B5_coal", dp471332 |-> "B6_oilgas",
             dp471410 |-> "C19_petrol", dp471566 |-> "D35_2_gas"]

\* iteration order of CPRS_DPS.items()
CPRS_DPS_keys == <<"dp471326", "dp471332", "dp471410", "dp471566">>

ParseDps == {CPRS_DPS_keys[i] : i \in 1..Len(CPRS_DPS_keys)}

\* int(decimals_raw): the strings Python parses, anything else is a ValueError
IntLiterals == ("-6" :> -6) @@ ("-3" :> -3) @@ ("0" :> 0) @@ ("2" :> 2) @@ ("4" :> 4)

\* values of the decimalsMonetary parameter; None: the key is not in parameters.csv
DecimalsRaw == {"-6", "-3", "0", "2", "4", "abc", None}

\* params_dict.get(key, default)
params_get(params_dict, key, default) ==
    IF params_dict[key] = None THEN default ELSE params_dict[key]

int_or_default(decimals_raw) ==
    IF decimals_raw \in DOMAIN IntLiterals THEN IntLiterals[decimals_raw] ELSE -6

\* the mistaken formula of the module docstring: 10^decimals for a negative exponent
scale_factor_declared(decimals) ==
    IF decimals < 0 THEN <<1, 10 ^ (-decimals)>> ELSE <<1, 1000000>>

scale_factor(decimals) == <<1, 1000000>>

\* pd.notna(raw) and raw > 0
fossil_raw_ok(raw) == notna(raw) /\ gt0(raw)

\* fossil_total after the first n datapoints of the loop over CPRS_DPS.items()
RECURSIVE fossil_loop(_, _, _)
fossil_loop(dp_vals, sf, n) ==
    IF n = 0 THEN <<0, 1>>
    ELSE IF fossil_raw_ok(dp_vals[CPRS_DPS_keys[n]])
         THEN fadd(fossil_loop(dp_vals, sf, n - 1), fmul(dp_vals[CPRS_DPS_keys[n]], sf))
         ELSE fossil_loop(dp_vals, sf, n - 1)

\* result[f"{label}_m_local"] for one datapoint
val_m_local(dp_vals, sf, dp) ==
    IF fossil_raw_ok(dp_vals[dp]) THEN fmul(dp_vals[dp], sf) ELSE <<0, 1>>

\* an absent raw value coerced to zero
normalize_or_zero(raw_value, sf) ==
    IF notna(raw_value) THEN fmul(raw_value, sf) ELSE <<0, 1>>

\* raw_total * sf if pd.notna(raw_total) else np.nan
normalize(raw_value, sf) ==
    IF notna(raw_value) THEN fmul(raw_value, sf) ELSE NaN

\* pd.notna(total) and total > 0
parse_total_ok(total) == notna(total) /\ gt0(total)

\* the Template 1 block of parse_bank
template1(dp_vals, sf) ==
    LET total        == normalize(dp_vals[DP_GRAND_TOTAL], sf)
        fossil_total == fossil_loop(dp_vals, sf, Len(CPRS_DPS_keys))
        ok           == parse_total_ok(total)
    IN  [has_template1 |-> TRUE,
         total_gca_m_local |-> total,
         B5_coal_m_local |-> val_m_local(dp_vals, sf, "dp471326"),
         B6_oilgas_m_local |-> val_m_local(dp_vals, sf, "dp471332"),
         C19_petrol_m_local |-> val_m_local(dp_vals, sf, "dp471410"),
         D35_2_gas_m_local |-> val_m_local(dp_vals, sf, "dp471566"),
         fossil_total_m_local |-> fossil_total,
         quant_score |-> IF ok THEN fdiv(fossil_total, total) ELSE NaN,
         quant_score_pct |-> IF ok THEN fmul(fdiv(fossil_total, total), <<100, 1>>)
                             ELSE NaN,
         divisors |-> IF ok THEN {total} ELSE {}]

\* the record of a filing without k_41.00.csv, with the ratio set to zero
missing_template1_as_zero(head) ==
    [has_template1 |-> FALSE, quant_score |-> <<0, 1>>, quant_score_pct |-> <<0, 1>>]
    @@ [head EXCEPT !.errors = <<"k_41.00.csv missing">>]

\* the branch of parse_bank for a filing without k_41.00.csv
missing_template1(head) ==
    [has_template1 |-> FALSE] @@ [head EXCEPT !.errors = <<"k_41.00.csv missing">>]

\* parse_bank(folder) ends in a KeyError: pd.read_csv(t1_file) gave a table without
\* the datapoint or the factValue column, and the subscript is outside any try
parse_bank_raises(f) ==
    /\ LEI_PATTERN_match(f.name)
    /\ f.params # NoFile
    /\ f.t1 # NoFile
    /\ ~(T1Columns \subseteq f.t1_columns)

\* parse_bank(folder); the key "divisors" is the history of the denominators the
\* call divided a fossil total by, not a key of the returned dict
parse_bank(f) ==
    LET result == [lei |-> NoLei, ref_period |-> None, base_currency |-> NoFile,
                   decimals |-> -6, scale_factor |-> <<1, 1000000>>,
                   parse_ok |-> FALSE, errors |-> <<>>, divisors |-> {}]
    IN  IF ~LEI_PATTERN_match(f.name)
        THEN [result EXCEPT !.errors = <<"cannot parse LEI from folder name">>]
        ELSE IF f.params = NoFile
        THEN [result EXCEPT !.lei = f.lei, !.errors = <<"parameters.csv missing">>]
        ELSE LET params_dict == f.params[1]
                 decimals == int_or_default(params_get(params_dict, "decimalsMonetary", "-6"))
                 head == [result EXCEPT !.lei = f.lei,
                                        !.ref_period = params_dict.refPeriod,
                                        !.base_currency = replace_ns(
                                            IF params_dict.baseCurrency = NoFile
                                            THEN Ccy("EUR", TRUE, FALSE, FALSE)
                                            ELSE params_dict.baseCurrency[1]),
                                        !.decimals = decimals,
                                        !.scale_factor = scale_factor(decimals),
                                        !.parse_ok = TRUE]
             IN  IF f.t1 = NoFile
                 THEN missing_template1(head)
                 ELSE template1(f.t1[1], head.scale_factor) @@ head

Step1bCols == {"lei", "ref_period", "base_currency", "decimals", "scale_factor",
               "has_template1", "total_gca_m_local", "fossil_total_m_local",
               "quant_score", "quant_score_pct", "B5_coal_m_local",
               "B6_oilgas_m_local", "C19_petrol_m_local", "D35_2_gas_m_local",
               "parse_ok", "errors"}

\* df[cols] of one result dict
select_cols(r) == [c \in (DOMAIN r) \cap Step1bCols |-> r[c]]

----------------------------------------------------------------------------
(* step2b_taxonomy_quantscore.py *)

CPRS_NAC == {"B5", "B6", "C19", "D35_2", "G46_71", "G47_3", "H49_5"}

\* fossil_cols: the c0010 datapoint of each CPRS sector, named by its NAC code,
\* in the order of the mapping table
fossil_cols == <<"B5", "B6", "C19", "D35_2", "G46_71", "G47_3", "H49_5">>

\* the bank rows whose lei starts with lei[:15]
startswith15(banks_df, lei) ==
    SelectSeq(banks_df, LAMBDA b : b.lei # NoLei /\ lei # NoLei /\ b.lei[1] = lei[1])

\* the test on one fossil value, without the positivity test
fossil_present_notna(val) == notna(val)

\* pd.notna(val) and val > 0
fossil_present(val) == notna(val) /\ gt0(val)

\* fossil_vals: the values of the fossil columns that pass the test, in column order
fossil_vals_of(row) ==
    LET kept == SelectSeq(fossil_cols, LAMBDA nac : fossil_present(row[nac]))
    IN  [i \in 1..Len(kept) |-> row[kept[i]]]

\* fossil_breakdown: NAC code -> value, for the values that pass the test
fossil_breakdown_of(row) ==
    LET kept == {nac \in CPRS_NAC : fossil_present(row[nac])}
    IN  [nac \in kept |-> row[nac]]

\* sum(fossil_vals), over the first n values
RECURSIVE sum(_, _)
sum(fossil_vals, n) ==
    IF n = 0 THEN <<0, 1>> ELSE fadd(sum(fossil_vals, n - 1), fossil_vals[n])

\* fossil_breakdown.get(nac, 0) / 1e6
breakdown_m(fossil_breakdown, nac) ==
    fdiv(IF nac \in DOMAIN fossil_breakdown THEN fossil_breakdown[nac] ELSE <<0, 1>>,
         <<1000000, 1>>)

\* the ratio branch with the zero-fossil case reported as full coverage
quant_branch_no_zero(fossil_total, grand_total) ==
    IF notna(grand_total) /\ gt0(grand_total)
    THEN [quant_score |-> fdiv(IF notna(fossil_total) THEN fossil_total ELSE <<0, 1>>,
                               grand_total),
          fossil_total |-> IF notna(fossil_total) THEN fossil_total ELSE <<0, 1>>,
          coverage |-> "full", divisors |-> {grand_total}]
    ELSE [quant_score |-> NaN, fossil_total |-> fossil_total,
          coverage |-> "no_data", divisors |-> {}]

\* the ratio branch with the share reported in percent
quant_branch_pct(fossil_total, grand_total) ==
    IF notna(fossil_total) /\ notna(grand_total) /\ gt0(grand_total)
    THEN [quant_score |-> fmul(fdiv(fossil_total, grand_total), <<100, 1>>),
          fossil_total |-> fossil_total,
          coverage |-> "full", divisors |-> {grand_total}]
    ELSE IF notna(grand_total) /\ gt0(grand_total)
    THEN [quant_score |-> <<0, 1>>, fossil_total |-> <<0, 1>>,
          coverage |-> "zero_fossil", divisors |-> {}]
    ELSE [quant_score |-> NaN, fossil_total |-> fossil_total,
          coverage |-> "no_data", divisors |-> {}]

\* the ratio branch with one raw unit added to the denominator
quant_branch_eps(fossil_total, grand_total) ==
    IF notna(fossil_total) /\ notna(grand_total) /\ gt0(grand_total)
    THEN [quant_score |-> fdiv(fossil_total, fadd(grand_total, <<1, 1>>)),
          fossil_total |-> fossil_total,
          coverage |-> "full", divisors |-> {fadd(grand_total, <<1, 1>>)}]
    ELSE IF notna(grand_total) /\ gt0(grand_total)
    THEN [quant_score |-> <<0, 1>>, fossil_total |-> <<0, 1>>,
          coverage |-> "zero_fossil", divisors |-> {}]
    ELSE [quant_score |-> NaN, fossil_total |-> fossil_total,
          coverage |-> "no_data", divisors |-> {}]

\* the ratio branch with the denominator only tested for presence
quant_branch_notna(fossil_total, grand_total) ==
    IF notna(fossil_total) /\ notna(grand_total)
    THEN [quant_score |-> fdiv(fossil_total, grand_total), fossil_total |-> fossil_total,
          coverage |-> "full", divisors |-> {grand_total}]
    ELSE IF notna(grand_total)
    THEN [quant_score |-> <<0, 1>>, fossil_total |-> <<0, 1>>,
          coverage |-> "zero_fossil", divisors |-> {}]
    ELSE [quant_score |-> NaN, fossil_total |-> fossil_total,
          coverage |-> "no_data", divisors |-> {}]

\* "Compute QuantScore": the three branches on fossil_total and grand_total
quant_branch(fossil_total, grand_total) ==
    IF notna(fossil_total) /\ notna(grand_total) /\ gt0(grand_total)
    THEN [quant_score |-> fdiv(fossil_total, grand_total), fossil_total |-> fossil_total,
          coverage |-> "full", divisors |-> {grand_total}]
    ELSE IF notna(grand_total) /\ gt0(grand_total)
    THEN [quant_score |-> <<0, 1>>, fossil_total |-> <<0, 1>>,
          coverage |-> "zero_fossil", divisors |-> {}]
    ELSE [quant_score |-> NaN, fossil_total |-> fossil_total,
          coverage |-> "no_data", divisors |-> {}]

\* the body of the loop over t1.iterrows(): one result row; total_col is FALSE when the
\* grand total column is not found and the total is taken from the banks table
step2b_row(row, banks_df, total_col) ==
    LET lei   == row.lei
        fossil_vals == fossil_vals_of(row)
        fossil_breakdown == fossil_breakdown_of(row)
        fossil_total0 == IF fossil_vals # <<>> THEN sum(fossil_vals, Len(fossil_vals))
                         ELSE NaN
        bank_row == startswith15(banks_df, lei)
        grand_total == IF total_col THEN row.total
                       ELSE IF Len(bank_row) > 0 THEN bank_row[1].total_gca_eur ELSE NaN
        q     == quant_branch(fossil_total0, grand_total)
        bank_meta == bank_row
    IN  [lei |-> lei,
         country |-> IF Len(bank_meta) > 0 THEN bank_meta[1].country ELSE "unknown",
         ref_period |-> IF Len(bank_meta) > 0 THEN bank_meta[1].ref_period ELSE "unknown",
         grand_total_eur_m |-> IF notna(grand_total)
                               THEN fdiv(grand_total, <<1000000, 1>>) ELSE NaN,
         fossil_total_eur_m |-> IF notna(q.fossil_total)
                                THEN fdiv(q.fossil_total, <<1000000, 1>>) ELSE NaN,
         quant_score |-> q.quant_score,
         quant_score_pct |-> IF notna(q.quant_score)
                             THEN fmul(q.quant_score, <<100, 1>>) ELSE NaN,
         coverage |-> q.coverage,
         B5_coal_eur_m |-> breakdown_m(fossil_breakdown, "B5"),
         B6_oilgas_eur_m |-> breakdown_m(fossil_breakdown, "B6"),
         C19_petrol_eur_m |-> breakdown_m(fossil_breakdown, "C19"),
         D35_2_gas_eur_m |-> breakdown_m(fossil_breakdown, "D35_2"),
         G46_71_wholesale_eur_m |-> breakdown_m(fossil_breakdown, "G46_71"),
         G47_3_retail_eur_m |-> breakdown_m(fossil_breakdown, "G47_3"),
         H49_5_pipeline_eur_m |-> breakdown_m(fossil_breakdown, "H49_5"),
         divisors |-> q.divisors]

----------------------------------------------------------------------------
(* step2c_currency_fix.py *)

\* rates in millionths of a euro per unit of currency
ECB_RATES_20250630 ==
    [EUR |-> 1000000, HUF |-> 2538, PLN |-> 232019, RON |-> 200803, SEK |-> 87108,
     DKK |-> 134228, CZK |-> 40161, HRK |-> 132626, CHF |-> 1063830, GBP |-> 1175978,
     USD |-> 921659, NOK |-> 86957, BGN |-> 511292, ALL |-> 9709, RSD |-> 8547,
     BAM |-> 511292]

ECB_RATES_20251231 ==
    [EUR |-> 1000000, HUF |-> 2525, PLN |-> 230000, RON |-> 200000, SEK |-> 86000,
     DKK |-> 134228, CZK |-> 39526, CHF |-> 1052632, GBP |-> 1162791, USD |-> 909091,
     NOK |-> 85000, BGN |-> 511292]

\* the period strings that contain "2025-12"
has_2025_12(ref_period) == ref_period \in {"2025-12-31", "2025-12"}

\* the tag of a rate that was not found
assumed_tag == "assumed_EUR"

\* the unknown-currency branch tagged like a rate of the 2025-06-30 table
unknown_rate_untagged(currency) == [rate |-> <<1, 1>>, source |-> "ECB SDW 2025-06-30"]

unknown_rate(currency) == [rate |-> <<1, 1>>, source |-> assumed_tag]

get_fx_rate(currency0, ref_period) ==
    LET currency == upper(strip(replace_ns(currency0)))
        dec      == has_2025_12(ref_period)
        rates    == IF dec THEN ECB_RATES_20251231 ELSE ECB_RATES_20250630
    IN  IF currency.code \in DOMAIN rates /\ currency = plain(currency.code)
        THEN [rate |-> Norm(rates[currency.code], 1000000),
              source |-> IF dec THEN "ECB SDW 2025-12-31" ELSE "ECB SDW 2025-06-30"]
        ELSE unknown_rate(currency)

\* qs.merge(banks[[lei_clean, currency_col, ref_period]].drop_duplicates("lei_clean"),
\*          on="lei_clean", how="left") for one row of qs
merge_left(row, banks_df) ==
    LET hit == SelectSeq(banks_df, LAMBDA b : b.lei = row.lei)
    IN  [ref_period_y |-> IF Len(hit) > 0 THEN hit[1].ref_period ELSE "nan",
         base_currency |-> IF Len(hit) > 0 THEN hit[1].base_currency ELSE NanStr]
        @@ row

\* the ratio fields recomputed from the converted amounts instead of copied
ratio_fields_recomputed(row, fx_rate) ==
    [quant_score |-> fmul(row.quant_score, fx_rate),
     quant_score_pct |-> fmul(row.quant_score_pct, fx_rate),
     coverage |-> row.coverage]

\* "QuantScore % is currency-invariant — keep as-is"
ratio_fields(row, fx_rate) ==
    [quant_score |-> row.quant_score,
     quant_score_pct |-> row.quant_score_pct,
     coverage |-> row.coverage]

\* the body of the loop over merged.iterrows(): one result row
step2c_row(row) ==
    LET currency   == upper(strip(replace_ns(row.base_currency)))
        ref_period == row.ref_period_y
        fx         == get_fx_rate(currency, ref_period)
        fx_rate    == fx.rate
        gca_reported    == row.grand_total_eur_m
        fossil_reported == row.fossil_total_eur_m
    IN  ratio_fields(row, fx_rate) @@
        [lei |-> row.lei,
         country |-> row.country,
         ref_period |-> ref_period,
         base_currency |-> currency,
         fx_rate_to_eur |-> fx_rate,
         fx_source |-> fx.source,
         gca_reported_m |-> gca_reported,
         fossil_reported_m |-> fossil_reported,
         gca_eur_m |-> IF notna(gca_reported) THEN fmul(gca_reported, fx_rate) ELSE NaN,
         fossil_eur_m |-> IF notna(fossil_reported)
                          THEN fmul(fossil_reported, fx_rate) ELSE NaN,
         B5_coal_eur_m |-> fmul(row.B5_coal_eur_m, fx_rate),
         B6_oilgas_eur_m |-> fmul(row.B6_oilgas_eur_m, fx_rate),
         C19_petrol_eur_m |-> fmul(row.C19_petrol_eur_m, fx_rate),
         D35_2_gas_eur_m |-> fmul(row.D35_2_gas_eur_m, fx_rate)]

\* df.dropna(subset=["quant_score"]), the rows that step2c saves
dropna_quant_score(df) == SelectSeq(df, LAMBDA r : notna(r.quant_score))

----------------------------------------------------------------------------
(* step3_das_scoring.py *)

\* seconds between two calls of the scoring service, in half seconds (1.5 s)
API_DELAY == 3

BANKS_FILE == "master_banks_fixed.csv"

QUANTSCORE_FILE == "quantscore_final.csv"

\* the output of step2b, read when quantscore_final.csv does not exist
TAXONOMY_FILE == "quantscore_taxonomy.csv"

BANK_NAMES == [K8MS7FD7N5Z2WQ51AZ71 |-> "Santander",
               5493000LKS7B3UTF7H35 |-> "PKO Bank Polski",
               3H0Q3U74FVFED2SHZT16 |-> "OTP Bank"]

required == <<"specificity", "completeness", "forward_looking", "consistency",
              "comparability">>

\* a credential that passes "if not api_key" accepted whatever its value
credential_ok_any(key) == TRUE

\* not (not api_key): None and the empty string are no credential
credential_ok(key) == key # None /\ key # ""

\* a JSON value of the reply: <<"int", n>>, <<"float", t>> for t tenths,
\* <<"numstr", n>> for the string of the digits of n, <<"str", 0>> for any other
\* string, <<"null", 0>>, <<"bool", b>>
JsonInt(n) == <<"int", n>>

\* int(v): the value, or a ValueError or TypeError
py_int(v) ==
    CASE v[1] = "int"    -> [ok |-> TRUE, val |-> v[2]]
      [] v[1] = "bool"   -> [ok |-> TRUE, val |-> v[2]]
      [] v[1] = "numstr" -> [ok |-> TRUE, val |-> v[2]]
      [] v[1] = "float"  -> [ok |-> TRUE, val |-> Sign(v[2]) * (Abs(v[2]) \div 10)]
      [] OTHER           -> [ok |-> FALSE, val |-> 0]

\* the clamp without its upper limit
clamp_lower_only(n) == IF n < 0 THEN 0 ELSE n

\* max(0, min(2, n))
clamp(n) == IF n < 0 THEN 0 ELSE IF n > 2 THEN 2 ELSE n

\* value[:90] works on a string, not on None or on a number
subscriptable(v) == v[1] \in {"str", "numstr"}

\* __failed_score(lei, bank_name, error)
_failed_score(lei, bank_name) ==
    [lei |-> lei, bank_name |-> bank_name,
     specificity |-> NaN, completeness |-> NaN, forward_looking |-> NaN,
     consistency |-> NaN, comparability |-> NaN,
     das_raw |-> NaN, das_normalized |-> NaN,
     rationale |-> <<"str", 0>>, scoring_status |-> "failed"]

\* sum(scores[k] for k in required), over the first n keys
RECURSIVE sum_required(_, _)
sum_required(scores, n) ==
    IF n = 0 THEN 0 ELSE sum_required(scores, n - 1) + scores[required[n]]

\* score_bank(client, lei, bank_name, qual_text, quant_score_pct) when the service
\* answers with reply: kind "exception" (the call raised), "text" (a text that
\* json.loads rejects), "list" (JSON that is not an object) or "dict" (the JSON
\* object reply.scores)
score_bank(lei, bank_name, reply) ==
    IF reply.kind # "dict" THEN _failed_score(lei, bank_name)
    ELSE LET raw == reply.scores
             bad == \E n \in 1..Len(required) :
                        \/ required[n] \notin DOMAIN raw
                        \/ ~py_int(raw[required[n]]).ok
         IN  IF bad THEN _failed_score(lei, bank_name)
             ELSE LET scores == [k \in {required[n] : n \in 1..Len(required)} |->
                                    clamp(py_int(raw[k]).val)]
                      das_raw == sum_required(scores, Len(required))
                  IN  [lei |-> lei, bank_name |-> bank_name,
                       specificity |-> <<scores.specificity, 1>>,
                       completeness |-> <<scores.completeness, 1>>,
                       forward_looking |-> <<scores.forward_looking, 1>>,
                       consistency |-> <<scores.consistency, 1>>,
                       comparability |-> <<scores.comparability, 1>>,
                       das_raw |-> <<das_raw, 1>>,
                       das_normalized |-> Norm(das_raw, 10),
                       rationale |-> IF "rationale" \in DOMAIN raw THEN raw.rationale
                                     ELSE <<"str", 0>>,
                       scoring_status |-> "ok"]

\* a - b
fsub(a, b) == IF a = NaN \/ b = NaN THEN NaN ELSE fadd(a, <<-b[1], b[2]>>)

\* a < b for finite a, b
flt(a, b) == a[1] * b[2] < b[1] * a[2]

\* Series.round(4): to the nearest multiple of 0.0001, a tie to the even one
round4(v) ==
    IF v[2] = 0 THEN v
    ELSE LET n == Abs(v[1]) * 10000
             q == n \div v[2]
             r == n % v[2]
             up == 2 * r > v[2] \/ (2 * r = v[2] /\ q % 2 = 1)
         IN  Norm(Sign(v[1]) * (IF up THEN q + 1 ELSE q), 10000)

\* drop_duplicates("lei"): the first row of every lei
drop_duplicates_lei(df) ==
    LET keep == {i \in 1..Len(df) : \A j \in 1..(i - 1) : df[j].lei # df[i].lei}
    IN  SelectSeq([i \in 1..Len(df) |-> [row |-> df[i], keep |-> i \in keep]],
                  LAMBDA x : x.keep)

\* qs_df["quant_score_pct"].max(): the largest value that is not NaN, NaN if none
qs_max_of(qs_df) ==
    LET vals == {qs_df[i].quant_score_pct : i \in 1..Len(qs_df)} \ {NaN}
    IN  IF vals = {} THEN NaN ELSE CHOOSE m \in vals : \A v \in vals : fle(v, m)

\* das_df.merge(right, on="lei", how="left") for one row of das_df
merge_rows(das_row, right) ==
    LET hit == SelectSeq(right, LAMBDA x : x.row.lei = das_row.lei)
    IN  IF hit = <<>> THEN <<[quant_score_pct |-> NaN] @@ das_row>>
        ELSE [k \in 1..Len(hit) |->
                 [quant_score_pct |-> hit[k].row.quant_score_pct] @@ das_row]

\* the merged table of the first n rows of das_df
RECURSIVE merge_upto(_, _, _)
merge_upto(das_df, right, n) ==
    IF n = 0 THEN <<>>
    ELSE merge_upto(das_df, right, n - 1) \o merge_rows(das_df[n], right)

\* sort_values("dci", ascending=False): whether row j comes before row i; rows
\* without a dci come last, rows that compare equal keep their order
sorts_before(rows, j, i) ==
    IF notna(rows[j].dci)
    THEN \/ ~notna(rows[i].dci)
         \/ flt(rows[i].dci, rows[j].dci)
         \/ (rows[i].dci = rows[j].dci /\ j < i)
    ELSE ~notna(rows[i].dci) /\ j < i

sort_values_dci(rows) ==
    [k \in 1..Len(rows) |->
        rows[CHOOSE i \in 1..Len(rows) :
                 Cardinality({j \in 1..Len(rows) : sorts_before(rows, j, i)}) = k - 1]]

\* compute_dci(das_df, qs_df); of the columns merged from qs_df only
\* quant_score_pct is kept
compute_dci(das_df, qs_df) ==
    LET merged == merge_upto(das_df, drop_duplicates_lei(qs_df), Len(das_df))
        qs_max == qs_max_of(qs_df)
        scored == [i \in 1..Len(merged) |->
                      LET m   == merged[i]
                          qsn == fdiv(m.quant_score_pct, qs_max)
                          dci == fsub(m.das_normalized, qsn)
                      IN  [quant_score_normalized |-> round4(qsn), dci |-> round4(dci)]
                          @@ [m EXCEPT !.das_normalized = round4(m.das_normalized)]]
    IN  sort_values_dci(scored)

\* qs_df[["lei", "quant_score_pct", "gca_eur_m", "base_currency", "country"]]:
\* step2b's table has no gca_eur_m and no base_currency column (KeyError)
has_dci_columns(qs_file) == qs_file = QUANTSCORE_FILE

\* banks[banks[text_col].notna() & (banks["qual_text_chars"] > 100)], sorted by
\* qual_text_chars descending, the first row of every lei: the leis in that order
select_with_text(banks_df) ==
    LET with == SelectSeq(banks_df, LAMBDA b : b.qual_text /\ b.qual_text_chars > 100)
        first(i) == \A j \in 1..Len(with) :
                        with[j].lei = with[i].lei /\ j # i =>
                            \/ with[j].qual_text_chars < with[i].qual_text_chars
                            \/ (with[j].qual_text_chars = with[i].qual_text_chars /\ i < j)
        before(j, i) == \/ with[j].qual_text_chars > with[i].qual_text_chars
                        \/ (with[j].qual_text_chars = with[i].qual_text_chars /\ j < i)
        kept == {i \in 1..Len(with) : first(i)}
    IN  [k \in 1..Cardinality(kept) |->
            with[CHOOSE i \in kept :
                     Cardinality({j \in kept : before(j, i)}) = k - 1].lei]

\* the wait skipped before the last two entities
sleep_due_early(i, n) == i < n - 2

\* if i < len(banks_with_text) - 1, for the position i of the row from 0
sleep_due(i, n) == i < n - 1

----------------------------------------------------------------------------
(* step0_build_taxonomy_mapping.py *)

\* the keys of CPRS_FOSSIL_NAC
CPRS_FOSSIL_NAC == {"B5", "B6", "C19", "D35_2", "G46_71", "G47_3", "H49_5"}

NAC_LABELS ==
       ("x12" :> "Total - Sectors NOT contributing highly to climate change")
    @@ ("x13" :> "Total - Sectors contributing highly to climate change")
    @@ ("x10" :> "Other sectors (households, public admin, education, health, etc.)")
    @@ ("A" :> "Agriculture, forestry and fishing (NACE A)")
    @@ ("B" :> "Mining and quarrying - TOTAL (NACE B)")
    @@ ("B5" :> "Mining of coal and lignite (NACE 05)")
    @@ ("B6" :> "Extraction of crude petroleum and natural gas (NACE 06)")
    @@ ("B7" :> "Mining of metal ores (NACE 07)")
    @@ ("B8" :> "Other mining and quarrying (NACE 08)")
    @@ ("B9" :> "Mining support service activities (NACE 09)")
    @@ ("C" :> "Manufacturing - TOTAL (NACE C)")
    @@ ("C10" :> "Manufacture of food products (NACE 10)")
    @@ ("C11" :> "Manufacture of beverages (NACE 11)")
    @@ ("C12" :> "Manufacture of tobacco products (NACE 12)")
    @@ ("C13" :> "Manufacture of textiles (NACE 13)")
    @@ ("C14" :> "Manufacture of wearing apparel (NACE 14)")
    @@ ("C15" :> "Manufacture of leather products (NACE 15)")
    @@ ("C16" :> "Manufacture of wood products (NACE 16)")
    @@ ("C17" :> "Manufacture of paper (NACE 17)")
    @@ ("C18" :> "Printing and reproduction of recorded media (NACE 18)")
    @@ ("C19" :> "Manufacture of coke and refined petroleum products (NACE 19)")
    @@ ("C20" :> "Manufacture of chemicals (NACE 20)")
    @@ ("C21" :> "Manufacture of pharmaceuticals (NACE 21)")
    @@ ("C22" :> "Manufacture of rubber and plastics (NACE 22)")
    @@ ("C23" :> "Manufacture of non-metallic mineral products (NACE 23)")
    @@ ("C24" :> "Manufacture of basic metals (NACE 24)")
    @@ ("C25" :> "Manufacture of fabricated metal products (NACE 25)")
    @@ ("C26" :> "Manufacture of computer and electronic products (NACE 26)")
    @@ ("C27" :> "Manufacture of electrical equipment (NACE 27)")
    @@ ("C28" :> "Manufacture of machinery and equipment (NACE 28)")
    @@ ("C29" :> "Manufacture of motor vehicles (NACE 29)")
    @@ ("C30" :> "Manufacture of other transport equipment (NACE 30)")
    @@ ("C31" :> "Manufacture of furniture (NACE 31)")
    @@ ("C32" :> "Other manufacturing (NACE 32)")
    @@ ("C33" :> "Repair and installation of machinery (NACE 33)")
    @@ ("D" :> "Electricity, gas, steam and air conditioning supply - TOTAL (NACE D)")
    @@ ("D35_1" :> "Electricity, gas and steam supply - subsection (NACE 35.1 group)")
    @@ ("D35_11" :> "Electric power generation from renewables (NACE 35.11)")
    @@ ("D35_2" :> "Manufacture of gas; distribution of gaseous fuels (NACE 35.2)")
    @@ ("D35_3" :> "Steam and air conditioning supply (NACE 35.3)")
    @@ ("E" :> "Water supply; sewerage, waste management (NACE E)")
    @@ ("F" :> "Construction - TOTAL (NACE F)")
    @@ ("F41" :> "Construction of buildings (NACE 41)")
    @@ ("F42" :> "Civil engineering (NACE 42)")
    @@ ("F43" :> "Specialised construction activities (NACE 43)")
    @@ ("G" :> "Wholesale and retail trade - TOTAL (NACE G)")
    @@ ("G46_71" :> "Wholesale of solid, liquid and gaseous fuels (NACE 46.71)")
    @@ ("G47_3" :> "Retail sale of automotive fuel (NACE 47.3)")
    @@ ("H" :> "Transportation and storage - TOTAL (NACE H)")
    @@ ("H49" :> "Land transport and transport via pipelines (NACE 49)")
    @@ ("H49_5" :> "Transport via pipeline (NACE 49.5)")
    @@ ("H50" :> "Water transport (NACE 50)")
    @@ ("H51" :> "Air transport (NACE 51)")
    @@ ("H52" :> "Warehousing and support for transportation (NACE 52)")
    @@ ("H53" :> "Postal and courier activities (NACE 53)")
    @@ ("I" :> "Accommodation and food service activities (NACE I)")
    @@ ("J" :> "Information and communication (NACE J)")
    @@ ("K" :> "Financial and insurance activities (NACE K)")
    @@ ("L" :> "Real estate activities (NACE L)")
    @@ ("M" :> "Professional, scientific and technical activities (NACE M)")
    @@ ("N" :> "Administrative and support service activities (NACE N)")

COL_LABELS ==
       ("c0010" :> "Gross carrying amount - TOTAL")
    @@ ("c0020" :> "Of which: performing")
    @@ ("c0030" :> "Of which: past due > 30 days")
    @@ ("c0040" :> "Of which: non-performing")
    @@ ("c0050" :> "Of which: subject to impairment")
    @@ ("c0060" :> "Accumulated impairment")
    @@ ("c0070" :> "Net carrying amount")
    @@ ("c0080" :> "Of which: fossil fuel related")
    @@ ("c0090" :> "Of which: subject to transition risk")
    @@ ("c0100" :> "Number of obligors")
    @@ ("c0110" :> "Of which: SMEs")
    @@ ("c0120" :> "Weighted average maturity")
    @@ ("c0130" :> "Of which: <= 5 years")
    @@ ("c0140" :> "Of which: > 5 years and <= 10 years")
    @@ ("c0150" :> "Of which: > 10 years and <= 20 years")
    @@ ("c0160" :> "Of which: > 20 years")

\* a cellcode is the sequence of its pieces: the letters "r" and "c", runs of digits,
\* the comma, one blank, and any other piece of text
Digits == {"0010", "0020", "0560"}

\* the first index from j on that does not hold a blank
RECURSIVE skip_blanks(_, _)
skip_blanks(cc, j) ==
    IF j <= Len(cc) /\ cc[j] = " " THEN skip_blanks(cc, j + 1) ELSE j

\* the pattern r(\d+),\s*c(\d+) matches cc from piece i on
match_at(cc, i) ==
    /\ i + 2 <= Len(cc)
    /\ cc[i] = "r" /\ cc[i + 1] \in Digits /\ cc[i + 2] = ","
    /\ LET j == skip_blanks(cc, i + 3)
       IN  j + 1 <= Len(cc) /\ cc[j] = "c" /\ cc[j + 1] \in Digits

NoMatch == <<>>

\* re.search(r'r(\d+),\s*c(\d+)', cc): the two groups of the leftmost match anywhere
\* in the string, or no match
re_search(cc) ==
    LET at == {i \in 1..Len(cc) : match_at(cc, i)}
    IN  IF at = {} THEN NoMatch
        ELSE LET i == CHOOSE k \in at : \A l \in at : k <= l
             IN  <<cc[i + 1], cc[skip_blanks(cc, i + 3) + 1]>>

\* "NAC" in k, over the qualifier keys of the taxonomy
contains_NAC(k) == k \in {"eba_dim:NAC", "eba_dim:NAC_2"}

\* v.split(":")[-1]: a qualifier value is the sequence of its pieces between colons
split_last(v) == v[Len(v)]

\* info.get("eba:documentation", {}).get("cellcode", ""): an absent documentation or
\* cellcode is <<>>, a present one a 1-tuple
cellcode_of(info) ==
    IF info.documentation = <<>> THEN <<>>
    ELSE IF info.documentation[1].cellcode = <<>> THEN <<>>
    ELSE info.documentation[1].cellcode[1]

\* the loop over dims.items(): the value of the first qualifier whose key contains
\* "NAC", in the order of the dict
nac_of(dims) ==
    LET hits == SelectSeq(dims, LAMBDA d : contains_NAC(d[1]))
    IN  IF hits = <<>> THEN "" ELSE split_last(hits[1][2])

\* the row appended for one entry whose cellcode matches
mapping_row(info) ==
    LET cc == cellcode_of(info)
        m  == re_search(cc)
        row_code == "r" \o m[1]
        col_code == "c" \o m[2]
        nac == nac_of(info.dimensions)
    IN  [datapoint |-> info.datapoint,
         row_code |-> row_code,
         col_code |-> col_code,
         nac_code |-> nac,
         nac_label |-> IF nac \in DOMAIN NAC_LABELS THEN NAC_LABELS[nac]
                       ELSE "Unknown NAC: " \o nac,
         col_label |-> IF col_code \in DOMAIN COL_LABELS THEN COL_LABELS[col_code]
                       ELSE col_code,
         is_cprs_fossil |-> nac \in CPRS_FOSSIL_NAC,
         is_grand_total |-> row_code = "r0560",
         cellcode |-> cc]

\* rows: the loop over props.items(), entries without a match skipped
mapping_rows(props) ==
    LET kept == SelectSeq(props, LAMBDA info : re_search(cellcode_of(info)) # NoMatch)
    IN  [i \in 1..Len(kept) |-> mapping_row(kept[i])]

----------------------------------------------------------------------------
(* The input files of one run *)

\* the fossil columns of a fact table: at most MaxPresent of them carry a value
FossilFacts(cols) ==
    UNION {{[c \in cols |-> IF c \in S THEN f[c] ELSE NaN] :
                f \in [S -> FossilRaw \ {NaN}]} :
           S \in {T \in SUBSET cols : Cardinality(T) <= MaxPresent}}

\* parameters.csv
Params == [decimalsMonetary : DecimalsRaw, refPeriod : {"2025-06-30"},
           baseCurrency : {<<Ccy("EUR", TRUE, FALSE, FALSE)>>}]

\* k_41.00.csv as the dict dp_vals
FactTables == {(DP_GRAND_TOTAL :> v) @@ f : v \in TotalRaw, f \in FossilFacts(ParseDps)}

\* a folder name that matches LEI_PATTERN and one whose identifier is a character short
GoodName == FolderName(20, ".")

ShortName == FolderName(19, ".")

\* a filing folder: its name, the identifier the name starts with, and its reports
Filings == [name : {GoodName, ShortName}, lei : {ThisLei},
            params : {NoFile} \cup {<<p>> : p \in Params},
            t1 : {NoFile} \cup {<<d>> : d \in FactTables},
            t1_columns : {T1Columns}]

\* a row of master_t1_raw.csv; total_col tells whether the table has the grand total
\* column
T1Rows(tc) == {[row |-> ("lei" :> ThisLei) @@ ("total" :> v) @@ f, total_col |-> tc] :
                  v \in IF tc THEN TotalRaw ELSE {NaN}, f \in FossilFacts(CPRS_NAC)}

\* "EUR", " iso4217:hrk " (a rate of the 2025-06-30 table only) and "XXX" (no rate)
BankCurrencies == {Ccy("EUR", FALSE, FALSE, FALSE), Ccy("HRK", TRUE, TRUE, TRUE),
                   Ccy("XXX", FALSE, FALSE, FALSE)}

BankRow(p, c, v) == [lei |-> ThisLei, country |-> "PL", ref_period |-> p,
                     base_currency |-> c, total_gca_eur |-> v]

\* master_banks.csv: no row or one row for the entity; its total_gca_eur is read only
\* when t1 has no grand total column
BankTables(tc) ==
    {<<>>} \cup
    IF tc THEN {<<BankRow(p, c, NaN)>> : p \in {"2025-06-30", "2025-12-31"},
                                        c \in BankCurrencies}
    ELSE {<<BankRow("2025-06-30", Ccy("EUR", FALSE, FALSE, FALSE), v)>> : v \in TotalRaw}

----------------------------------------------------------------------------
(* The runs *)

without_divisors(r) == [k \in (DOMAIN r) \ {"divisors"} |-> r[k]]

InitStep1b ==
    /\ job = "step1b"
    /\ filing \in {<<f>> : f \in Filings}
    /\ t1 = NoFile
    /\ banks = <<>>

InitStep2 ==
    /\ job = "step2b"
    /\ filing = NoFile
    /\ \E tc \in BOOLEAN :
           /\ t1 \in {<<r>> : r \in T1Rows(tc)}
           /\ banks \in BankTables(tc)

\* nothing of the mapping script has run
NoMapping ==
    /\ taxonomy = NoFile
    /\ dp_mapping = NoFile

\* nothing of the scoring script has run
NoScoring ==
    /\ api_key = None
    /\ banks_fixed = <<>>
    /\ quantscore = [file |-> "quantscore_final.csv", rows |-> <<>>]
    /\ loaded = {}
    /\ banks_with_text = <<>>
    /\ das_results = <<>>
    /\ waited = 0
    /\ gaps = <<>>
    /\ das_csv = NoFile
    /\ dci_csv = NoFile

\* nothing of the parser, the ratio script or the currency script has run
NoQuant ==
    /\ filing = NoFile
    /\ t1 = NoFile
    /\ banks = <<>>
    /\ master_fixed = NoFile
    /\ qs_csv = NoFile
    /\ final_csv = NoFile
    /\ div_log = {}

Init ==
    /\ InitStep1b \/ InitStep2
    /\ master_fixed = NoFile
    /\ qs_csv = NoFile
    /\ final_csv = NoFile
    /\ div_log = {}
    /\ NoScoring
    /\ NoMapping

\* step1b main(): parse every folder whose name matches LEI_PATTERN, save the table;
\* an exception of parse_bank ends the script before anything is saved
Step1bMain ==
    /\ job = "step1b"
    /\ LET bank_folders == SelectSeq(filing, LAMBDA f : LEI_PATTERN_match(f.name))
           results == [i \in 1..Len(bank_folders) |-> parse_bank(bank_folders[i])]
       IN  IF \E i \in 1..Len(bank_folders) : parse_bank_raises(bank_folders[i])
           THEN /\ job' = "raised"
                /\ UNCHANGED <<master_fixed, div_log>>
           ELSE /\ master_fixed' = <<[i \in 1..Len(results) |-> select_cols(results[i])]>>
                /\ div_log' = UNION {results[i].divisors : i \in 1..Len(results)}
                /\ job' = "done"
    /\ UNCHANGED <<filing, t1, banks, qs_csv, final_csv>>
    /\ UNCHANGED vars_das
    /\ UNCHANGED vars_map

\* step2b main(): one result row per row of t1, saved as quantscore_taxonomy.csv
Step2bMain ==
    /\ job = "step2b"
    /\ LET results == [i \in 1..Len(t1) |-> step2b_row(t1[i].row, banks, t1[i].total_col)]
       IN  /\ qs_csv' = <<[i \in 1..Len(results) |-> without_divisors(results[i])]>>
           /\ div_log' = UNION {results[i].divisors : i \in 1..Len(results)}
    /\ job' = "step2c"
    /\ UNCHANGED <<filing, t1, banks, master_fixed, final_csv>>
    /\ UNCHANGED vars_das
    /\ UNCHANGED vars_map

\* step2c main(): merge, convert, drop the rows without a ratio, save as
\* quantscore_final.csv
Step2cMain ==
    /\ job = "step2c"
    /\ LET qs == qs_csv[1]
           results == [i \in 1..Len(qs) |-> step2c_row(merge_left(qs[i], banks))]
       IN  final_csv' = <<dropna_quant_score(results)>>
    /\ job' = "done"
    /\ div_log' = {}
    /\ UNCHANGED <<filing, t1, banks, master_fixed, qs_csv>>
    /\ UNCHANGED vars_das
    /\ UNCHANGED vars_map

Next == Step1bMain \/ Step2bMain \/ Step2cMain

Spec == Init /\ [][Next]_vars

----------------------------------------------------------------------------
(* The folders of a parser run *)

\* at most MaxFolders folders in BANKS_FOLDER
MaxFolders == 2

\* the filing the comment of parse_bank calls anomalous (values 100x inflated)
AnomalousLei == <<"K8MS7FD7N5Z2WQ5", "1AZ71">>

\* a folder name with 20 identifier characters followed by an underscore
UnderscoreName == FolderName(20, "_")

\* k_41.00.csv with a grand total of v raw units, coal of b5 and no other fossil fact
FactTable(v, b5) ==
    (DP_GRAND_TOTAL :> v) @@ [d \in ParseDps |-> IF d = "dp471326" THEN b5 ELSE NaN]

Folder(name, lei, params, table, columns) ==
    [name |-> name, lei |-> lei, params |-> params, t1 |-> table, t1_columns |-> columns]

EurParams == [decimalsMonetary |-> "-6", refPeriod |-> "2025-06-30",
              baseCurrency |-> <<Ccy("EUR", TRUE, FALSE, FALSE)>>]

\* the folders a run may find: complete filings under each name, filings without
\* parameters.csv, without k_41.00.csv, and with a k_41.00.csv that lacks a column
Folders ==
    {Folder(n, l, <<EurParams>>, <<d>>, T1Columns) :
        n \in {GoodName, ShortName, UnderscoreName}, l \in {ThisLei, AnomalousLei},
        d \in {FactTable(RawOf(2), RawOf(1)), FactTable(NaN, RawOf(1))}}
    \cup {Folder(GoodName, l, NoFile, t, T1Columns) :
            l \in {ThisLei, AnomalousLei},
            t \in {NoFile, <<FactTable(RawOf(2), RawOf(1))>>}}
    \cup {Folder(GoodName, l, <<EurParams>>, NoFile, T1Columns) :
            l \in {ThisLei, AnomalousLei}}
    \cup {Folder(GoodName, ThisLei, <<EurParams>>, <<FactTable(RawOf(2), RawOf(1))>>, c) :
            c \in {{"datapoint"}, {"factValue"}}}

\* sorted(BANKS_FOLDER.iterdir()): one to MaxFolders folders
InitFolders ==
    /\ job = "step1b"
    /\ filing \in UNION {[1..n -> Folders] : n \in 1..MaxFolders}
    /\ t1 = NoFile
    /\ banks = <<>>
    /\ master_fixed = NoFile
    /\ qs_csv = NoFile
    /\ final_csv = NoFile
    /\ div_log = {}
    /\ NoScoring
    /\ NoMapping

NextFolders == Step1bMain

SpecStep1b == InitFolders /\ [][NextFolders]_vars

----------------------------------------------------------------------------
(* The taxonomy file of a mapping run *)

\* at most MaxEntries datapoints in propertyGroups
MaxEntries == 2

\* "{K_41.00, r<row>, c<col>}" and "r<row>,c<col>"
Braced(row, col) == <<"{", "K_41.00", ",", " ", "r", row, ",", " ", "c", col, "}">>

Bare(row, col) == <<"r", row, ",", "c", col>>

\* cellcodes with the pattern and without it (no comma, column first, empty string)
Cellcodes == {Braced("0010", "0010"), Braced("0560", "0010"), Bare("0010", "0020"),
              <<"r", "0010", " ", "c", "0010">>, <<"c", "0010", ",", "r", "0010">>, <<>>}

\* "eba:documentation": absent, without cellcode, or with one
Documentations == {<<>>, <<[cellcode |-> <<>>]>>} \cup {<<[cellcode |-> <<cc>>]>> : cc \in Cellcodes}

\* "dimensions": no qualifier, a sector qualifier alone, after another qualifier, with
\* a sector code outside the tables, and two qualifiers whose key contains "NAC"
DimensionSets ==
    {<<>>,
     <<<<"eba_dim:NAC", <<"eba_NC", "B5">>>>>>,
     <<<<"eba_dim:MCY", <<"eba_MC", "x1">>>>, <<"eba_dim:NAC", <<"eba_NC", "v2", "G46_71">>>>>>,
     <<<<"eba_dim:NAC", <<"ZZ9">>>>>>,
     <<<<"eba_dim:NAC", <<"eba_NC", "B5">>>>, <<"eba_dim:NAC_2", <<"eba_NC", "x13">>>>>>}

DatapointIds == <<"dp471326", "dp471828", "dp471332", "dp471410">>

\* the documentation and the qualifiers of n entries
EntryChoices(n) == [1..n -> [doc : Documentations, dims : DimensionSets]]

\* propertyGroups: the entries e under distinct datapoint keys
PropertyGroups(e) ==
    [i \in DOMAIN e |-> [datapoint |-> DatapointIds[i], documentation |-> e[i].doc,
                         dimensions |-> e[i].dims]]

\* k_41.00.json found under the taxonomy path with one to MaxEntries entries, or not
InitStep0 ==
    /\ job = "step0"
    /\ \/ taxonomy = NoFile
       \/ \E n \in 1..MaxEntries : \E e \in EntryChoices(n) :
              taxonomy = <<PropertyGroups(e)>>
    /\ dp_mapping = NoFile
    /\ NoQuant
    /\ NoScoring

\* build_mapping(): FileNotFoundError without k_41.00.json; otherwise the rows are
\* saved, and the summary that follows reads df['is_cprs_fossil'], a KeyError on the
\* frame without columns that an empty list of rows gives
Step0Main ==
    /\ job = "step0"
    /\ IF taxonomy = NoFile
       THEN /\ job' = "raised"
            /\ UNCHANGED dp_mapping
       ELSE LET rows == mapping_rows(taxonomy[1])
            IN  /\ dp_mapping' = <<rows>>
                /\ job' = IF rows = <<>> THEN "raised" ELSE "done"
    /\ UNCHANGED taxonomy
    /\ UNCHANGED vars_quant
    /\ UNCHANGED vars_das

NextStep0 == Step0Main

SpecStep0 == InitStep0 /\ [][NextStep0]_vars

----------------------------------------------------------------------------
(* The tables of a run over several entities *)

\* at most MaxRows rows in master_banks.csv
MaxRows == 2

\* an identifier with the same first 15 characters as ThisLei
SiblingLei == <<"5493000LKS7B3UT", "Q2X81">>

EntityLeis == <<ThisLei, SiblingLei>>

\* a row of master_t1_raw.csv with a grand total, a coal value and no other fossil fact
EntityRow(lei, total, b5) ==
    ("lei" :> lei) @@ ("total" :> total) @@ [c \in CPRS_NAC |-> IF c = "B5" THEN b5 ELSE NaN]

\* master_t1_raw.csv: rows of distinct entities, all with or all without the grand
\* total column
EntityTables(tc) ==
    UNION {{[i \in 1..n |-> [row |-> EntityRow(EntityLeis[f[i]], v[i].total, v[i].b5),
                             total_col |-> tc]] :
               f \in {g \in [1..n -> 1..Len(EntityLeis)] :
                        \A i, j \in 1..n : g[i] = g[j] => i = j},
               v \in [1..n -> [total : IF tc THEN {RawOf(2), NaN} ELSE {NaN},
                               b5 : {RawOf(1), NaN}]]} :
           n \in 1..Len(EntityLeis)}

\* the rows of master_banks.csv: either identifier with one of three sets of metadata
MetadataRows ==
    {[lei |-> l, country |-> m[1], ref_period |-> m[2], base_currency |-> m[3],
      total_gca_eur |-> m[4]] :
        l \in {ThisLei, SiblingLei},
        m \in {<<"PL", "2025-06-30", plain("EUR"), RawOf(2)>>,
               <<"HU", "2025-12-31", plain("HUF"), RawOf(1)>>,
               <<"PL", "2025-12-31", Ccy("HRK", TRUE, TRUE, TRUE), NaN>>}}

\* master_banks.csv: up to MaxRows rows; an identifier may occur twice
MetadataTables == UNION {[1..n -> MetadataRows] : n \in 0..MaxRows}

InitEntities ==
    /\ job = "step2b"
    /\ filing = NoFile
    /\ \E tc \in BOOLEAN : t1 \in EntityTables(tc)
    /\ banks \in MetadataTables
    /\ master_fixed = NoFile
    /\ qs_csv = NoFile
    /\ final_csv = NoFile
    /\ div_log = {}
    /\ NoScoring
    /\ NoMapping

NextEntities == Step2bMain \/ Step2cMain

SpecStep2 == InitEntities /\ [][NextEntities]_vars

----------------------------------------------------------------------------
(* The input files and the service of a scoring run *)

\* rows of master_banks_fixed.csv
MaxBanks == 2
\* rows of the exposure table
MaxQs == 2
\* time.sleep returns at most MaxJitter half seconds late
MaxJitter == 1

SeqUpTo(S, n) == UNION {[1..k -> S] : k \in 0..n}

\* the entities of the tables
Leis == {"K8MS7FD7N5Z2WQ51AZ71", "5493000LKS7B3UTF7H35"}

\* a row of master_banks_fixed.csv: no text, a placeholder text, a narrative text
BankFixedRows ==
    {[lei |-> l, qual_text |-> c > 0, qual_text_chars |-> c] : l \in Leis, c \in {0, 50, 200}}

BankFixedTables == SeqUpTo(BankFixedRows, MaxBanks)

\* quant_score_pct of a saved row: 0 (zero_fossil), 25, 75
Pcts == {<<0, 1>>, <<25, 1>>, <<75, 1>>}

QsFinalRows == [lei : Leis, quant_score_pct : Pcts]

\* quantscore_final.csv as step2c saves it: rows with a ratio, sorted by it descending
QuantscoreFinal ==
    {t \in SeqUpTo(QsFinalRows, MaxQs) :
        \A i \in 1..Len(t) : \A j \in 1..Len(t) :
            i < j => fle(t[j].quant_score_pct, t[i].quant_score_pct)}

\* quantscore_taxonomy.csv as step2b saves it: in the order of t1, a row without a
\* ratio included
QuantscoreTaxonomy ==
    {<<[lei |-> l, quant_score_pct |-> <<25, 1>>], [lei |-> l, quant_score_pct |-> NaN]>> :
        l \in Leis}

QuantscoreFiles ==
    {[file |-> QUANTSCORE_FILE, rows |-> t] : t \in QuantscoreFinal}
    \cup {[file |-> TAXONOMY_FILE, rows |-> t] : t \in QuantscoreTaxonomy}

Missing == <<"missing", 0>>

\* the JSON object with base for every dimension but "consistency", odd for
\* "consistency" and rat for "rationale"; Missing: the key is not in the object
JsonObject(base, odd, rat) ==
    LET keys == ({required[n] : n \in 1..Len(required)}
                     \ (IF odd = Missing THEN {"consistency"} ELSE {}))
                \cup (IF rat = Missing THEN {} ELSE {"rationale"})
    IN  [k \in keys |-> IF k = "rationale" THEN rat
                        ELSE IF k = "consistency" THEN odd ELSE base]

\* values of a dimension: in range, out of range, 1.7, "2", "high", null, true
JsonValues == {JsonInt(n) : n \in -1..3}
              \cup {<<"float", 17>>, <<"numstr", 2>>, <<"str", 0>>, <<"null", 0>>,
                    <<"bool", 1>>}

\* the JSON objects the service answers with in a run
ReplyShapes ==
    {<<b, o, <<"str", 0>>>> : b \in {JsonInt(0), JsonInt(2)},
                              o \in {JsonInt(-1), JsonInt(2), JsonInt(3), <<"float", 17>>,
                                     <<"str", 0>>, <<"null", 0>>, Missing}}
    \cup {<<JsonInt(1), JsonInt(1), Missing>>, <<JsonInt(1), JsonInt(1), <<"null", 0>>>>}

\* what client.messages.create does: it raises, or answers with a text that is not
\* JSON, with a JSON list, or with a JSON object
ServiceReplies ==
    {[kind |-> k, scores |-> <<>>] : k \in {"exception", "text", "list"}}
    \cup {[kind |-> "dict", scores |-> JsonObject(t[1], t[2], t[3])] : t \in ReplyShapes}

WithText(l) == [lei |-> l, qual_text |-> TRUE, qual_text_chars |-> 200]

\* every banks table with one of two exposure tables, or every exposure table with
\* a banks table of one or two entities with a narrative text, or three entities
\* with a narrative text and one exposure table
InitStep3 ==
    /\ job = "step3"
    /\ api_key \in {None, "", "sk-ant"}
    /\ \/ /\ banks_fixed \in BankFixedTables
          /\ quantscore \in
                 {[file |-> QUANTSCORE_FILE,
                   rows |-> <<[lei |-> "K8MS7FD7N5Z2WQ51AZ71", quant_score_pct |-> <<25, 1>>]>>],
                  [file |-> TAXONOMY_FILE,
                   rows |-> <<[lei |-> "K8MS7FD7N5Z2WQ51AZ71", quant_score_pct |-> NaN]>>]}
       \/ /\ banks_fixed \in {<<WithText("K8MS7FD7N5Z2WQ51AZ71")>>,
                              <<WithText("5493000LKS7B3UTF7H35"),
                                WithText("K8MS7FD7N5Z2WQ51AZ71")>>}
          /\ quantscore \in QuantscoreFiles
       \/ /\ banks_fixed = <<WithText("K8MS7FD7N5Z2WQ51AZ71"),
                              WithText("5493000LKS7B3UTF7H35"),
                              WithText("3H0Q3U74FVFED2SHZT16")>>
          /\ quantscore = [file |-> QUANTSCORE_FILE,
                           rows |-> <<[lei |-> "3H0Q3U74FVFED2SHZT16",
                                       quant_score_pct |-> <<75, 1>>],
                                      [lei |-> "K8MS7FD7N5Z2WQ51AZ71",
                                       quant_score_pct |-> <<25, 1>>]>>]
    /\ loaded = {}
    /\ banks_with_text = <<>>
    /\ das_results = <<>>
    /\ waited = 0
    /\ gaps = <<>>
    /\ das_csv = NoFile
    /\ dci_csv = NoFile
    /\ NoQuant
    /\ NoMapping

\* step3 main() up to the loop: the credential, the two tables, the selection
Step3Start ==
    /\ job = "step3"
    /\ IF ~credential_ok(api_key)
       THEN /\ job' = "aborted"
            /\ UNCHANGED <<loaded, banks_with_text>>
       ELSE /\ job' = "scoring"
            /\ loaded' = {BANKS_FILE, quantscore.file}
            /\ banks_with_text' = select_with_text(banks_fixed)
    /\ UNCHANGED <<api_key, banks_fixed, quantscore, das_results, waited, gaps,
                   das_csv, dci_csv>>
    /\ UNCHANGED vars_quant
    /\ UNCHANGED vars_map

\* one pass of the loop over banks_with_text: the call of the service, the result
\* appended, the progress line, the wait
Step3Score ==
    /\ job = "scoring"
    /\ Len(das_results) < Len(banks_with_text)
    /\ \E reply \in ServiceReplies : \E late \in 0..MaxJitter :
           LET i      == Len(das_results)
               lei    == banks_with_text[i + 1]
               result == score_bank(lei, BANK_NAMES[lei], reply)
           IN  /\ das_results' = Append(das_results, result)
               /\ gaps' = IF i > 0 THEN Append(gaps, waited) ELSE gaps
               /\ IF result.scoring_status = "ok" /\ ~subscriptable(result.rationale)
                  THEN job' = "raised" /\ waited' = 0
                  ELSE /\ job' = "scoring"
                       /\ waited' = IF sleep_due(i, Len(banks_with_text))
                                    THEN API_DELAY + late ELSE 0
    /\ UNCHANGED <<api_key, banks_fixed, quantscore, loaded, banks_with_text,
                   das_csv, dci_csv>>
    /\ UNCHANGED vars_quant
    /\ UNCHANGED vars_map

\* step3 main() after the loop: das_scores.csv, compute_dci, dci_final.csv
Step3Save ==
    /\ job = "scoring"
    /\ Len(das_results) = Len(banks_with_text)
    /\ das_csv' = <<das_results>>
    /\ IF das_results = <<>> \/ ~has_dci_columns(quantscore.file)
       THEN job' = "raised" /\ UNCHANGED dci_csv
       ELSE job' = "done" /\ dci_csv' = <<compute_dci(das_results, quantscore.rows)>>
    /\ UNCHANGED <<api_key, banks_fixed, quantscore, loaded, banks_with_text,
                   das_results, waited, gaps>>
    /\ UNCHANGED vars_quant
    /\ UNCHANGED vars_map

NextStep3 == Step3Start \/ Step3Score \/ Step3Save

SpecStep3 == InitStep3 /\ [][NextStep3]_vars

----------------------------------------------------------------------------
(* What a run read and what it saved *)

Million == <<1000000, 1>>

ParsedRows == IF master_fixed = NoFile THEN <<>> ELSE master_fixed[1]

QsRows == IF qs_csv = NoFile THEN <<>> ELSE qs_csv[1]

FinalRows == IF final_csv = NoFile THEN <<>> ELSE final_csv[1]

\* the parsed records that carry the Template 1 fields
HasT1(r) == "total_gca_m_local" \in DOMAIN r

LocalKey == ("dp471326" :> "B5_coal_m_local") @@ ("dp471332" :> "B6_oilgas_m_local")
            @@ ("dp471410" :> "C19_petrol_m_local") @@ ("dp471566" :> "D35_2_gas_m_local")

\* the grand total the ratio script reads for row i
GrandTotalIn(i) ==
    IF t1[i].total_col THEN t1[i].row.total
    ELSE IF banks # <<>> THEN banks[1].total_gca_eur ELSE NaN

Positive(vals, keys) == {k \in keys : notna(vals[k]) /\ gt0(vals[k])}

RECURSIVE SumOver(_, _)
SumOver(vals, S) ==
    IF S = {} THEN <<0, 1>>
    ELSE LET k == CHOOSE x \in S : TRUE IN fadd(vals[k], SumOver(vals, S \ {k}))

with_decimals(f, d) ==
    [f EXCEPT !.params = <<[f.params[1] EXCEPT !.decimalsMonetary = d]>>]

Factors == {<<k, 1>> : k \in 2..MaxFactor} \cup {<<1, MaxFactor>>}

\* every monetary fact of a fact table, of a t1 row, of the banks table times k
scaled_facts(dp_vals, k) == [d \in DOMAIN dp_vals |-> fmul(dp_vals[d], k)]

scaled_row(row, k) ==
    [c \in DOMAIN row |-> IF c = "lei" THEN row[c] ELSE fmul(row[c], k)]

scaled_banks(banks_df, k) ==
    [i \in 1..Len(banks_df) |->
        [banks_df[i] EXCEPT !.total_gca_eur = fmul(banks_df[i].total_gca_eur, k)]]

----------------------------------------------------------------------------
(* Claims *)

C3_CoverageDeterminesRatio ==
    \A i \in 1..Len(QsRows) :
        LET r == QsRows[i]
        IN  /\ r.coverage \in {"full", "zero_fossil", "no_data"}
            /\ r.coverage = "full" =>
                   /\ notna(r.quant_score)
                   /\ r.quant_score = fdiv(r.fossil_total_eur_m, r.grand_total_eur_m)
            /\ r.coverage = "zero_fossil" =>
                   r.quant_score = <<0, 1>> /\ r.fossil_total_eur_m = <<0, 1>>
            /\ r.coverage = "no_data" => r.quant_score = NaN

\* a row with full coverage and a ratio strictly between 0 and 1
C3_Witness ==
    /\ Len(QsRows) = 1 /\ QsRows[1].coverage = "full"
    /\ gt0(QsRows[1].quant_score) /\ QsRows[1].quant_score # <<1, 1>>
    /\ fle(QsRows[1].quant_score, <<1, 1>>)

\* C4: a grand total that is absent, zero or negative gives coverage no_data and no
\* ratio whatever the fossil values, and neither script divides a fossil total by a
\* denominator that is absent or not positive.
C4_NoDataWithoutDenominator ==
    /\ \A i \in 1..Len(QsRows) :
           ~(notna(GrandTotalIn(i)) /\ gt0(GrandTotalIn(i))) =>
               QsRows[i].coverage = "no_data" /\ QsRows[i].quant_score = NaN
    /\ \A i \in 1..Len(ParsedRows) :
           HasT1(ParsedRows[i]) /\ ~gt0(ParsedRows[i].total_gca_m_local) =>
               ParsedRows[i].quant_score = NaN
    /\ \A d \in div_log : notna(d) /\ d[1] > 0 /\ d[2] > 0

\* a row with a positive fossil value and a grand total of zero or less
C4_Witness ==
    /\ Len(QsRows) = 1
    /\ notna(GrandTotalIn(1)) /\ ~gt0(GrandTotalIn(1))
    /\ Positive(t1[1].row, CPRS_NAC) # {}

\* C5: a positive grand total with no fossil component found gives fossil total 0,
\* ratio 0 and coverage zero_fossil.
C5_ZeroFossil ==
    \A i \in 1..Len(QsRows) :
        gt0(GrandTotalIn(i)) /\ Positive(t1[i].row, CPRS_NAC) = {} =>
            /\ QsRows[i].coverage = "zero_fossil"
            /\ QsRows[i].quant_score = <<0, 1>>
            /\ QsRows[i].fossil_total_eur_m = <<0, 1>>

\* a row with a positive grand total and no fossil value at all
C5_Witness ==
    /\ Len(QsRows) = 1 /\ gt0(GrandTotalIn(1))
    /\ \A nac \in CPRS_NAC : ~notna(t1[1].row[nac])

\* the t1 row with every fossil value that is not strictly positive made absent
only_positive(row) ==
    [c \in DOMAIN row |->
        IF c \in CPRS_NAC /\ ~(notna(row[c]) /\ gt0(row[c])) THEN NaN ELSE row[c]]

C7_RatioInUnitInterval ==
    /\ \A i \in 1..Len(QsRows) :
           notna(QsRows[i].quant_score) =>
               /\ fle(<<0, 1>>, QsRows[i].quant_score)
               /\ fle(QsRows[i].quant_score, <<1, 1>>)
    /\ \A i \in 1..Len(ParsedRows) :
           HasT1(ParsedRows[i]) /\ notna(ParsedRows[i].quant_score) =>
               /\ fle(<<0, 1>>, ParsedRows[i].quant_score)
               /\ fle(ParsedRows[i].quant_score, <<1, 1>>)

\* C8: ratio and coverage do not change when every fossil value and the grand total
\* of the record are multiplied by the same positive factor.
C8_ScaleInvariant ==
    /\ \A i \in 1..Len(QsRows) : \A k \in Factors :
           job = "step2c" =>
           LET r2 == step2b_row(scaled_row(t1[i].row, k), scaled_banks(banks, k),
                                t1[i].total_col)
           IN  /\ r2.quant_score = QsRows[i].quant_score
               /\ r2.coverage = QsRows[i].coverage
    /\ \A i \in 1..Len(ParsedRows) : \A k \in Factors :
           HasT1(ParsedRows[i]) =>
               LET f  == filing[i]
                   r2 == parse_bank([f EXCEPT !.t1 = <<scaled_facts(f.t1[1], k)>>])
               IN  r2.quant_score = ParsedRows[i].quant_score

\* a row with full coverage and a ratio strictly between 0 and 1
C8_Witness ==
    /\ Len(QsRows) = 1 /\ QsRows[1].coverage = "full"
    /\ gt0(QsRows[1].quant_score) /\ QsRows[1].quant_score # <<1, 1>>
    /\ fle(QsRows[1].quant_score, <<1, 1>>)
    /\ job = "step2c"

\* the rate table that serves a reference period
SelectedRates(ref_period) ==
    IF ref_period \in {"2025-12-31", "2025-12"} THEN ECB_RATES_20251231
    ELSE ECB_RATES_20250630

RateCodes == DOMAIN ECB_RATES_20250630 \cup DOMAIN ECB_RATES_20251231 \cup {"XXX", "NAN"}

RatePeriods == {"2025-06-30", "2025-12-31", "nan"}

\* C9: a currency that is not in the rate table selected for the reference period gets
\* rate exactly 1.0 with the assumed tag, and a currency of the selected table gets a
\* provenance other than the assumed tag.
C9_UnknownCurrencyAssumed ==
    /\ \A i \in 1..Len(FinalRows) :
           LET r == FinalRows[i]
           IN  IF r.base_currency.code \in DOMAIN SelectedRates(r.ref_period)
               THEN /\ r.fx_source # assumed_tag
                    /\ r.fx_rate_to_eur =
                           Norm(SelectedRates(r.ref_period)[r.base_currency.code], 1000000)
               ELSE r.fx_rate_to_eur = <<1, 1>> /\ r.fx_source = assumed_tag
    /\ job = "step2c" =>
           \A code \in RateCodes : \A p \in RatePeriods : \A messy \in BOOLEAN :
               LET fx == get_fx_rate(Ccy(code, messy, messy, messy), p)
               IN  IF code \in DOMAIN SelectedRates(p)
                   THEN fx.source # assumed_tag
                   ELSE fx.rate = <<1, 1>> /\ fx.source = assumed_tag

\* a saved row whose currency has a rate in the other table only
C9_Witness ==
    /\ Len(FinalRows) = 1
    /\ FinalRows[1].base_currency = plain("HRK")
    /\ FinalRows[1].ref_period = "2025-12-31"
    /\ FinalRows[1].fx_source = assumed_tag

\* C10: quant_score, quant_score_pct and coverage of a row of the FX-corrected table
\* equal those of the row of the ratio table it was converted from.
C10_RatioUntouched ==
    \A i \in 1..Len(FinalRows) : \A j \in 1..Len(QsRows) :
        QsRows[j].lei = FinalRows[i].lei =>
            /\ FinalRows[i].quant_score = QsRows[j].quant_score
            /\ FinalRows[i].quant_score_pct = QsRows[j].quant_score_pct
            /\ FinalRows[i].coverage = QsRows[j].coverage

\* a saved row converted at a rate other than 1 with a ratio above 0
C10_Witness ==
    /\ Len(FinalRows) = 1
    /\ FinalRows[1].fx_rate_to_eur # <<1, 1>>
    /\ gt0(FinalRows[1].quant_score)
    /\ FinalRows[1].gca_eur_m # FinalRows[1].gca_reported_m

\* the sector columns of a row of the ratio table
SectorCols == {"B5_coal_eur_m", "B6_oilgas_eur_m", "C19_petrol_eur_m", "D35_2_gas_eur_m",
               "G46_71_wholesale_eur_m", "G47_3_retail_eur_m", "H49_5_pipeline_eur_m"}

\* C11: in every row of the FX-corrected table the grand total, the fossil total and
\* each of the seven sector values of the row it was converted from appear multiplied
\* by fx_rate_to_eur, an absent value staying absent.
C11_EveryFieldScaled ==
    \A i \in 1..Len(FinalRows) : \A j \in 1..Len(QsRows) :
        QsRows[j].lei = FinalRows[i].lei =>
            LET r  == FinalRows[i]
                q  == QsRows[j]
                fx == r.fx_rate_to_eur
            IN  /\ r.gca_eur_m = fmul(q.grand_total_eur_m, fx)
                /\ r.fossil_eur_m = fmul(q.fossil_total_eur_m, fx)
                /\ \A c \in SectorCols : c \in DOMAIN r /\ r[c] = fmul(q[c], fx)

----------------------------------------------------------------------------
(* What a scoring run saved *)

DasRows == IF das_csv = NoFile THEN <<>> ELSE das_csv[1]

DciRows == IF dci_csv = NoFile THEN <<>> ELSE dci_csv[1]

\* the entities of the exposure table and of the raw scoring output
QsLeis == {quantscore.rows[i].lei : i \in 1..Len(quantscore.rows)}

DasLeis == {DasRows[i].lei : i \in 1..Len(DasRows)}

Dimensions == {required[n] : n \in 1..Len(required)}

\* a value that is present and lies in [0, 1]
InUnit(v) == notna(v) /\ v[2] > 0 /\ fle(<<0, 1>>, v) /\ fle(v, <<1, 1>>)

\* C12: every row of the composite table belongs to an entity that has both a row in
\* the raw scoring output and a row in the exposure table.
C12_InnerJoin ==
    \A i \in 1..Len(DciRows) :
        DciRows[i].lei \in DasLeis /\ DciRows[i].lei \in QsLeis

\* C13: an entity whose scoring failed is saved in the raw scoring output with status
\* failed and no scores, and has no row in the composite table.
C13_FailedExcluded ==
    \A i \in 1..Len(DasRows) :
        DasRows[i].scoring_status = "failed" =>
            /\ \A d \in Dimensions : DasRows[i][d] = NaN
            /\ DasRows[i].das_raw = NaN /\ DasRows[i].das_normalized = NaN
            /\ \A k \in 1..Len(DciRows) : DciRows[k].lei # DasRows[i].lei

\* C14: the composite row of an entity that holds the maximum ratio of the full
\* exposure table has quant_score_normalized = 1.0, also when the entity has several
\* exposure rows and when other entities of the table have no score.
C14_MaxAnchorsOne ==
    \A k \in 1..Len(DciRows) : \A i \in 1..Len(quantscore.rows) :
        LET q == quantscore.rows[i]
        IN  q.lei = DciRows[k].lei /\ notna(q.quant_score_pct)
            /\ (\A j \in 1..Len(quantscore.rows) :
                    notna(quantscore.rows[j].quant_score_pct) =>
                        fle(quantscore.rows[j].quant_score_pct, q.quant_score_pct))
            => DciRows[k].quant_score_normalized = <<1, 1>>

\* C15: in every row of the composite table quant_score_normalized and
\* das_normalized are present and lie in [0, 1].
C15_NormalizedInUnit ==
    \A k \in 1..Len(DciRows) :
        InUnit(DciRows[k].quant_score_normalized) /\ InUnit(DciRows[k].das_normalized)

\* C16: every row of the composite table has a dci, and the dci of a row is greater
\* than or equal to the dci of the row after it.
C16_SortedByDci ==
    \A k \in 1..Len(DciRows) :
        /\ notna(DciRows[k].dci)
        /\ k < Len(DciRows) =>
               notna(DciRows[k + 1].dci) /\ fle(DciRows[k + 1].dci, DciRows[k].dci)

\* the properties of one result with status ok
OkResult(r) ==
    /\ \A d \in Dimensions : r[d] \in {<<0, 1>>, <<1, 1>>, <<2, 1>>}
    /\ r.das_raw[2] = 1
    /\ r.das_raw[1] = r.specificity[1] + r.completeness[1] + r.forward_looking[1]
                      + r.consistency[1] + r.comparability[1]
    /\ r.das_raw[1] \in 0..10
    /\ r.das_normalized = fdiv(r.das_raw, <<10, 1>>)
    /\ InUnit(r.das_normalized)

\* C17: in every result with status ok each of the five scores is 0, 1 or 2, das_raw
\* is their sum and lies in 0..10, and das_normalized is das_raw / 10 and lies in
\* [0, 1]; this for the results of the run and, before the run starts, for every
\* JSON object the service can answer with.
C17_ClampedScores ==
    /\ \A i \in 1..Len(das_results) :
           das_results[i].scoring_status = "ok" => OkResult(das_results[i])
    /\ job = "step3" =>
           \A b \in JsonValues : \A o \in JsonValues \cup {Missing} :
               LET r == score_bank("K8MS7FD7N5Z2WQ51AZ71", "Santander",
                                   [kind |-> "dict",
                                    scores |-> JsonObject(b, o, <<"str", 0>>)])
               IN  /\ r.scoring_status \in {"ok", "failed"}
                   /\ r.scoring_status = "ok" => OkResult(r)

\* a result with status ok whose consistency score was answered as -1: no reply of the
\* run has consistency 0 beside another score of 2
C17_Witness ==
    \E i \in 1..Len(das_results) :
        /\ das_results[i].scoring_status = "ok"
        /\ das_results[i].consistency = <<0, 1>>
        /\ das_results[i].specificity = <<2, 1>>
        /\ das_results[i].das_raw = <<8, 1>>

\* C18: whatever the service answers, the loop is never left by an exception, and the
\* raw scoring output holds exactly one result, with status ok or failed, for every
\* selected entity, in the order of the selection.
C18_OneResultPerEntity ==
    /\ job = "raised" => das_csv # NoFile
    /\ das_csv # NoFile =>
           /\ Len(DasRows) = Len(banks_with_text)
           /\ \A i \in 1..Len(DasRows) :
                  /\ DasRows[i].lei = banks_with_text[i]
                  /\ DasRows[i].scoring_status \in {"ok", "failed"}

\* C19: every call of the service but the first happens after a wait of at least
\* API_DELAY since the call before it, and every such wait is on record.
C19_MinimumDelay ==
    /\ \A k \in 1..Len(gaps) : gaps[k] >= API_DELAY
    /\ das_results # <<>> => Len(gaps) = Len(das_results) - 1

\* three calls, the second one made after a call that failed and the third one
\* after a call that succeeded
C19_Witness ==
    /\ Len(das_results) = 3 /\ Len(gaps) = 2
    /\ das_results[1].scoring_status = "failed"
    /\ das_results[2].scoring_status = "ok"

\* C20: without a credential the run reads no table, makes no scoring call and
\* writes no table, and it goes nowhere but to the abort.
C20_NoCredentialNoProcessing ==
    api_key \in {None, ""} =>
        /\ job \in {"step3", "aborted"}
        /\ loaded = {}
        /\ banks_with_text = <<>> /\ das_results = <<>> /\ gaps = <<>>
        /\ das_csv = NoFile /\ dci_csv = NoFile

\* a run aborted for an empty credential, with entities to score in the banks table
C20_Witness ==
    /\ job = "aborted" /\ api_key = ""
    /\ select_with_text(banks_fixed) # <<>>

----------------------------------------------------------------------------
(* What a parser run over several folders saved *)

\* the name matches: 20 characters of A-Z0-9 and then a dot
NameMatches(name) == name.run = 20 /\ name.next = "."

Matching == {i \in 1..Len(filing) : NameMatches(filing[i].name)}

IdentityError == <<"cannot parse LEI from folder name">>

\* C21: a folder whose name does not start with 20 characters of A-Z0-9 followed by a
\* dot fails extraction with the identity error and has no row in the saved table: the
\* table holds exactly the records of the matching folders, in order
C21_UnmatchedDiscarded ==
    job = "done" =>
        /\ \A i \in (1..Len(filing)) \ Matching :
               LET r == parse_bank(filing[i])
               IN  r.errors = IdentityError /\ ~r.parse_ok /\ r.lei = NoLei
        /\ ParsedRows =
               LET kept == SelectSeq(filing, LAMBDA f : NameMatches(f.name))
               IN  [i \in 1..Len(kept) |-> select_cols(parse_bank(kept[i]))]
        /\ \A j \in 1..Len(ParsedRows) :
               ParsedRows[j].errors # IdentityError /\ ParsedRows[j].lei # NoLei

\* a complete filing under a name with an underscore after the identifier, next to a
\* matching one: one row saved
C21_Witness ==
    /\ job = "done"
    /\ Len(filing) = 2
    /\ filing[1].name = UnderscoreName
    /\ filing[1].params # NoFile /\ filing[1].t1 # NoFile
    /\ filing[2].name = GoodName
    /\ Len(ParsedRows) = 1
    /\ ParsedRows[1].lei = filing[2].lei

\* the row of an entity without any Template 1 fact in master_t1_raw.csv
NoDataRow(lei) == ("lei" :> lei) @@ ("total" :> NaN) @@ [c \in CPRS_NAC |-> NaN]

\* the folders of the run that have parameters.csv but no k_41.00.csv
WithoutTemplate1 ==
    {i \in Matching : filing[i].params # NoFile /\ filing[i].t1 = NoFile}

RecordUnder(f, lei) ==
    [select_cols(parse_bank([f EXCEPT !.lei = ThisLei])) EXCEPT !.lei = lei]

\* C23: the record of the anomalous filing carries a flag that marks its absolute value
\* as unreliable (so it differs from the record the same reports give any other
\* entity in more than the identifier), no other record carries it, and its ratio is
\* computed as for any other filing
C23_AnomalyFlagged ==
    job = "done" =>
        LET kept == SelectSeq(filing, LAMBDA f : NameMatches(f.name))
        IN  \A j \in 1..Len(kept) :
                /\ kept[j].lei = AnomalousLei /\ HasT1(ParsedRows[j]) =>
                       ParsedRows[j] # RecordUnder(kept[j], AnomalousLei)
                /\ kept[j].lei # AnomalousLei =>
                       ParsedRows[j] = RecordUnder(kept[j], kept[j].lei)
                /\ HasT1(ParsedRows[j]) =>
                       ParsedRows[j].quant_score = RecordUnder(kept[j], ThisLei).quant_score

\* C28: for every folder whose name matches, parse_bank returns a record with parse_ok
\* and errors set and never raises: the run ends with one saved record per matching
\* folder, also when parameters.csv is missing or k_41.00.csv lacks a column
C28_AlwaysARecord ==
    job # "step1b" =>
        /\ job = "done"
        /\ Len(ParsedRows) = Cardinality(Matching)
        /\ \A j \in 1..Len(ParsedRows) : {"parse_ok", "errors"} \subseteq DOMAIN ParsedRows[j]

----------------------------------------------------------------------------
(* What the ratio and the currency scripts saved *)

\* the row of an entity without a ratio, as the claim has it in a saved table
NoDataRowIn(rows, lei) ==
    \E j \in 1..Len(rows) :
        rows[j].lei = lei /\ rows[j].coverage = "no_data" /\ ~notna(rows[j].quant_score)

\* C24: an entity whose grand total is missing is present, with coverage no_data and
\* an absent ratio, in the table the ratio script saved and in the table the currency
\* script saved
C24_NoDataInEveryTable ==
    final_csv # NoFile =>
        \A i \in 1..Len(t1) :
            ~notna(GrandTotalIn(i)) =>
                /\ NoDataRowIn(QsRows, t1[i].row.lei)
                /\ NoDataRowIn(FinalRows, t1[i].row.lei)

\* C29: the rate table is selected by the period bucket (a period containing "2025-12":
\* the 2025-12-31 table, any other period, also a missing one: the 2025-06-30 table),
\* and a currency has a verified rate in one bucket exactly when it has one in the
\* other: no saved row is converted at the assumed rate 1.0 while the same currency
\* has a verified rate for the other period, nor the reverse
C29_SameCurrenciesInBothBuckets ==
    \A j \in 1..Len(FinalRows) :
        LET r     == FinalRows[j]
            dec   == r.ref_period \in {"2025-12-31", "2025-12"}
            other == IF dec THEN "2025-06-30" ELSE "2025-12-31"
        IN  /\ r.fx_source \in {assumed_tag, IF dec THEN "ECB SDW 2025-12-31"
                                                ELSE "ECB SDW 2025-06-30"}
            /\ (r.fx_source = assumed_tag)
                   = (get_fx_rate(r.base_currency, other).source = assumed_tag)

\* the NAC sector of each datapoint parse_bank reads
SectorOf == ("dp471326" :> "B5") @@ ("dp471332" :> "B6") @@ ("dp471410" :> "C19")
            @@ ("dp471566" :> "D35_2")

\* the filing whose k_41.00.csv holds the raw facts of a row of master_t1_raw.csv
FilingOf(row) ==
    Folder(GoodName, row.lei, <<EurParams>>,
           <<(DP_GRAND_TOTAL :> row.total) @@ [d \in ParseDps |-> row[SectorOf[d]]]>>,
           T1Columns)

\* C30: for the same raw grand total and raw fossil values of one entity, the
\* quant_score of parse_bank equals the quant_score the ratio script saved, also when
\* G46_71, G47_3 or H49_5 carry a positive value
C30_RatiosAgree ==
    job = "step2c" =>
        \A i \in 1..Len(t1) :
            t1[i].total_col =>
                parse_bank(FilingOf(t1[i].row)).quant_score = QsRows[i].quant_score

----------------------------------------------------------------------------
(* What a mapping run saved *)

MappingRows == IF dp_mapping = NoFile THEN <<>> ELSE dp_mapping[1]

\* the entry has a cellcode of the form r<digits>,c<digits>, bare or inside braces
HasCoordinates(info) ==
    /\ info.documentation # <<>>
    /\ info.documentation[1].cellcode # <<>>
    /\ info.documentation[1].cellcode[1]
           \in {Braced(r, c) : r \in Digits, c \in Digits}
               \cup {Bare(r, c) : r \in Digits, c \in Digits}

\* C25: the build skips, without aborting, every entry whose cellcode does not have
\* the form r<digits>,c<digits>, also an entry without documentation or without
\* cellcode: it ends normally and the saved table has exactly one row for each
\* datapoint whose cellcode matches and no row for the others
C25_SkipsWithoutAborting ==
    (job # "step0" /\ taxonomy # NoFile) =>
        /\ job = "done"
        /\ LET props == taxonomy[1]
               with  == {i \in 1..Len(props) : HasCoordinates(props[i])}
           IN  /\ Len(MappingRows) = Cardinality(with)
               /\ \A i \in 1..Len(props) :
                      (i \in with) =
                          (\E j \in 1..Len(MappingRows) :
                               MappingRows[j].datapoint = props[i].datapoint)

Perms(n) == {f \in [1..n -> 1..n] : \A i, j \in 1..n : f[i] = f[j] => i = j}

\* the orders of the qualifiers of one entry
DimOrders(dims) == {[i \in 1..Len(dims) |-> dims[f[i]]] : f \in Perms(Len(dims))}

\* the same entries in any order, each with its qualifiers in any order
Reorderings(props) ==
    LET n == Len(props)
        alldims == UNION {DimOrders(props[k].dimensions) : k \in 1..n}
    IN  UNION {{[i \in 1..n |-> [props[f[i]] EXCEPT !.dimensions = d[i]]] :
                   d \in {dd \in [1..n -> alldims] :
                            \A i \in 1..n : dd[i] \in DimOrders(props[f[i]].dimensions)}} :
               f \in Perms(n)}

\* the fields of a row the claim compares
Structural(r) ==
    [datapoint |-> r.datapoint, row_code |-> r.row_code, col_code |-> r.col_code,
     nac_code |-> r.nac_code, is_cprs_fossil |-> r.is_cprs_fossil,
     is_grand_total |-> r.is_grand_total]

RowSet(rows) == {Structural(rows[j]) : j \in 1..Len(rows)}

\* C26: the build is order-independent: the entries in any order, each with its
\* qualifiers in any order, give the same set of rows (row_code, col_code, nac_code,
\* is_cprs_fossil, is_grand_total per datapoint) as the saved table, also when an
\* entry has two qualifiers whose key contains "NAC"
C26_OrderIndependent ==
    job = "done" =>
        \A q \in Reorderings(taxonomy[1]) : RowSet(mapping_rows(q)) = RowSet(MappingRows)

----------------------------------------------------------------------------
(* What a run over several entities saved *)

\* the metadata rows of the entity itself, in each order
OwnMetadata(lei) ==
    LET own == SelectSeq(banks, LAMBDA b : b.lei = lei)
    IN  {[i \in 1..Len(own) |-> own[f[i]]] : f \in Perms(Len(own))}

\* what the ratio script and the currency script report for row i of t1 when they
\* read only the entity's own metadata rows o
Alone2b(i, o) == without_divisors(step2b_row(t1[i].row, o, t1[i].total_col))

Alone2c(i, o) == step2c_row(merge_left(Alone2b(i, o), o))

\* C27: the country, reference period, grand total and ratio that the ratio script and
\* the currency script report for an entity are those they report from the entity's
\* own row and own metadata rows alone, in any order: they depend neither on other
\* entities nor on the order of the rows, also when two identifiers share their first
\* 15 characters or an identifier occurs twice in the metadata table
C27_EntityIndependent ==
    job \in {"step2c", "done"} =>
        \A i \in 1..Len(t1) :
            \A o \in OwnMetadata(t1[i].row.lei) :
                /\ LET r == QsRows[i]
                       a == Alone2b(i, o)
                   IN  /\ r.country = a.country
                       /\ r.ref_period = a.ref_period
                       /\ r.grand_total_eur_m = a.grand_total_eur_m
                       /\ r.quant_score = a.quant_score
                /\ job = "done" =>
                       LET a == Alone2c(i, o)
                       IN  notna(a.quant_score) =>
                               \E j \in 1..Len(FinalRows) :
                                   LET r == FinalRows[j]
                                   IN  /\ r.lei = a.lei
                                       /\ r.country = a.country
                                       /\ r.ref_period = a.ref_period
                                       /\ r.gca_eur_m = a.gca_eur_m
                                       /\ r.quant_score = a.quant_score

============================================================================
